---- MODULE Spec2Model ----
(***************************************************************************)
(* Model of the two entry points of the SSE disclosure link collector:     *)
(*   sse_links_downloader.py            (fixed code list, variant "fixed") *)
(*   sse_links_mainboard_downloader.py  (codes from a CSV, "mainboard")    *)
(*                                                                         *)
(* Python strings are sequences of one-character strings, so that strip(), *)
(* startswith() and concatenation are computed, not assumed.  A dictionary *)
(* value is a record [k, s]: k = "str" with the text s, k = "none" for a   *)
(* None value, k = "absent" for a missing key.                             *)
(***************************************************************************)
EXTENDS Integers, Sequences, FiniteSets

VARIABLES
    variant,        \* which entry point runs: "fixed" or "mainboard"
    codes,          \* CODES, or the list load_codes_from_csv returned
    year,           \* loop variable of `for year in range(...)`
    ci,             \* 1-based position of `code` in the code loop
    reports,        \* records of the current fetch not yet processed
    summary_rows,   \* accumulator of the year
    seen_urls,      \* dedup set of the year
    files,          \* year -> rows written to that year's file, or NoFile
    pc,             \* position of the run
    hist,           \* the records fetched so far this year, with their code
    attempted,      \* the (year, position) pairs fetched so far
    accumulated,    \* year -> whether a row was appended during that year
    nwrites,        \* year -> number of times the year's file was opened
    nrecs,          \* number of records the endpoint has returned so far
    max_retries,    \* request_with_retry: its max_retries argument
    outcomes,       \* request_with_retry: what each attempt would do
    result,         \* request_with_retry: how the call ended
    raw_url,        \* URL resolution: the stripped, non-empty URL field
    pdf_url,        \* URL resolution: successive results
    csv,            \* load_codes_from_csv: the file's header and rows
    loaded          \* load_codes_from_csv: the returned list

driver == <<variant, codes, year, ci, reports, summary_rows, seen_urls,
            files, pc, hist, attempted, accumulated, nwrites, nrecs>>
retry == <<max_retries, outcomes, result>>
resolve == <<raw_url, pdf_url>>
loader == <<csv, loaded>>
vars == <<driver, retry, resolve, loader>>

----------------------------------------------------------------------------
(* Bounds of the model.                                                     *)

\* request_with_retry is checked for max_retries in 0..MaxRetriesArg
MaxRetriesArg == 3
\* the endpoint returns at most MaxRecs records over one run
MaxRecs == 3
\* a codes CSV has at most MaxCsvRows data rows
MaxCsvRows == 2
\* URL resolution is checked on every string of 1..MaxUrlLen characters
MaxUrlLen == 5

----------------------------------------------------------------------------
(* Configuration of the program.                                            *)

START_YEAR == 2022

END_YEAR == 2023

MAX_RETRIES == 3

Years == START_YEAR..END_YEAR

CODES == << <<"6","0","0","0","0","0">>,
            <<"6","0","0","5","1","9">>,
            <<"6","0","1","3","1","8">> >>

URL_PDF_BASE == <<"h","t","t","p","s",":","/","/","s","t","a","t","i","c",
                  ".","s","s","e",".","c","o","m",".","c","n">>

----------------------------------------------------------------------------
(* Python strings and dictionary values.                                    *)

Str(s) == [k |-> "str", s |-> s]

NONE == [k |-> "none", s |-> <<>>]

ABSENT == [k |-> "absent", s |-> <<>>]

IsSpace(c) == c = " "

RECURSIVE LStrip(_)
LStrip(s) == IF s # <<>> /\ IsSpace(Head(s)) THEN LStrip(Tail(s)) ELSE s

RECURSIVE RStrip(_)
RStrip(s) ==
    IF s # <<>> /\ IsSpace(s[Len(s)]) THEN RStrip(SubSeq(s, 1, Len(s) - 1))
    ELSE s

\* str.strip()
Strip(s) == RStrip(LStrip(s))

\* str.startswith(p)
StartsWith(s, p) == Len(s) >= Len(p) /\ SubSeq(s, 1, Len(p)) = p

\* all sequences over S of length lo..hi
SeqsOf(S, lo, hi) == UNION {[1..n -> S] : n \in lo..hi}

----------------------------------------------------------------------------
(* request_with_retry.  An outcome is [ok, v]: the attempt returns the     *)
(* response v, or raises the error v.  The call ends by returning a        *)
(* response ("return"), by re-raising the last error ("raise"), or by      *)
(* running off the end of the loop, which returns None ("none").           *)

\* a backoff that does not grow with the attempt number
BackoffConstant(attempt) == 2

\* time.sleep(2 * attempt)
Backoff(attempt) == 2 * attempt

\* the final attempt recognised one attempt early
IsLastAttemptOffByOne(attempt, maxr) == attempt + 1 = maxr

\* if attempt == max_retries: raise
IsLastAttempt(attempt, maxr) == attempt = maxr

RECURSIVE RetryLoop(_, _, _, _)
RetryLoop(attempt, maxr, outs, sleeps) ==
    IF attempt > maxr
    THEN [kind |-> "none", val |-> NONE, attempts |-> attempt - 1,
          sleeps |-> sleeps]
    ELSE IF outs[attempt].ok
    THEN [kind |-> "return", val |-> outs[attempt].v, attempts |-> attempt,
          sleeps |-> sleeps]
    ELSE IF IsLastAttempt(attempt, maxr)
    THEN [kind |-> "raise", val |-> outs[attempt].v, attempts |-> attempt,
          sleeps |-> sleeps]
    ELSE RetryLoop(attempt + 1, maxr, outs, Append(sleeps, Backoff(attempt)))

RequestWithRetry(maxr, outs) == RetryLoop(1, maxr, outs, <<>>)

----------------------------------------------------------------------------
(* Values the variables of one part hold while another part is checked.     *)

NoFile == [written |-> FALSE, rows |-> <<>>]

Pending == [kind |-> "pending", val |-> NONE, attempts |-> 0, sleeps |-> <<>>]

DriverIdle ==
    /\ variant = "none"
    /\ codes = <<>>
    /\ year = START_YEAR
    /\ ci = 0
    /\ reports = <<>>
    /\ summary_rows = <<>>
    /\ seen_urls = {}
    /\ files = [y \in Years |-> NoFile]
    /\ pc = "idle"
    /\ hist = <<>>
    /\ attempted = <<>>
    /\ accumulated = [y \in Years |-> FALSE]
    /\ nwrites = [y \in Years |-> 0]
    /\ nrecs = 0

RetryIdle == max_retries = 0 /\ outcomes = <<>> /\ result = Pending

ResolveIdle == raw_url = <<>> /\ pdf_url = <<>>

NotLoaded == [done |-> FALSE, codes |-> <<>>]

LoaderIdle == csv = [header |-> <<>>, rows |-> <<>>] /\ loaded = NotLoaded

----------------------------------------------------------------------------
(* request_with_retry called on its own, for every max_retries of          *)
(* 0..MaxRetriesArg and every way the attempts can go.                      *)

Responses == {Str(<<"r">>), Str(<<"s">>)}

Errors == {Str(<<"e">>), Str(<<"f">>)}

AttemptOutcomes ==
    {[ok |-> TRUE, v |-> r] : r \in Responses}
        \cup {[ok |-> FALSE, v |-> e] : e \in Errors}

InitRetry ==
    /\ DriverIdle /\ ResolveIdle /\ LoaderIdle
    /\ max_retries \in 0..MaxRetriesArg
    /\ outcomes \in [1..max_retries -> AttemptOutcomes]
    /\ result = Pending

CallRequestWithRetry ==
    /\ result.kind = "pending"
    /\ result' = RequestWithRetry(max_retries, outcomes)
    /\ UNCHANGED <<max_retries, outcomes, driver, resolve, loader>>

NextRetry == CallRequestWithRetry

SpecRetry == InitRetry /\ [][NextRetry]_vars

\* the attempts that succeed after every earlier attempt failed
FirstOk ==
    {k \in 1..max_retries :
        outcomes[k].ok /\ \A i \in 1..(k - 1) : ~outcomes[i].ok}

AllFail == \A i \in 1..max_retries : ~outcomes[i].ok

\* C3: if attempts 1..k-1 fail and attempt k <= max_retries succeeds, the
\* call returns the response of attempt k after exactly k attempts and
\* exactly k-1 sleeps, the i-th of 2*i seconds (strictly increasing); no
\* sleep and no attempt follows the successful attempt.
C3_SuccessAtAttemptK ==
    result.kind # "pending" =>
        \A k \in FirstOk :
            /\ result.kind = "return"
            /\ result.val = outcomes[k].v
            /\ result.attempts = k
            /\ result.sleeps = [i \in 1..(k - 1) |-> 2 * i]
            /\ \A i \in 1..(k - 2) : result.sleeps[i] < result.sleeps[i + 1]

C3_Witness ==
    /\ result.kind = "return"
    /\ result.attempts = 3
    /\ ~outcomes[1].ok /\ ~outcomes[2].ok /\ outcomes[3].ok
    /\ result.sleeps = <<2, 4>>

\* how a finished call must have ended: with the response of a successful
\* attempt, or, every attempt having failed, with the failure of attempt
\* max_retries and no sleep after it
EndsProperly ==
    \/ /\ result.kind = "return"
       /\ result.attempts \in FirstOk
       /\ result.val = outcomes[result.attempts].v
    \/ /\ result.kind = "raise"
       /\ AllFail
       /\ result.attempts = max_retries
       /\ result.val = outcomes[max_retries].v
       /\ Len(result.sleeps) = max_retries - 1

\* C4 as stated: for every value of max_retries the call ends by returning
\* the response of a successful attempt or by propagating the failure of
\* the final attempt after exactly max_retries attempts; it never returns
\* without a response.
C4_Original == result.kind # "pending" => EndsProperly

\* C4 as amended: the same for every max_retries >= 1.  (With
\* max_retries <= 0 the loop body never runs and the call returns None.)
C4_EndsProperlyFromOne ==
    (result.kind # "pending" /\ max_retries >= 1) => EndsProperly

C4_Witness ==
    /\ result.kind = "raise"
    /\ max_retries = 3
    /\ result.attempts = 3
    /\ result.sleeps = <<2, 4>>

----------------------------------------------------------------------------
(* URL resolution of the normalizer, applied to the stripped, non-empty    *)
(* URL field.                                                               *)

HTTP == <<"h","t","t","p">>

\* a resolution that prepends the base whatever the URL starts with
ResolveUrlAlwaysPrepend(u) == URL_PDF_BASE \o u

\* if not relative_url.startswith("http"): pdf_url = URL_PDF_BASE + relative_url
\* else: pdf_url = relative_url
ResolveUrl(u) == IF ~StartsWith(u, HTTP) THEN URL_PDF_BASE \o u ELSE u

UrlChars == {"h", "t", "p", ":", "/", "a"}

InitResolve ==
    /\ DriverIdle /\ RetryIdle /\ LoaderIdle
    /\ raw_url \in SeqsOf(UrlChars, 1, MaxUrlLen)
    /\ pdf_url = <<>>

\* the resolution of the raw URL
ResolveOnce ==
    /\ pdf_url = <<>>
    /\ pdf_url' = <<ResolveUrl(raw_url)>>
    /\ UNCHANGED <<raw_url, driver, retry, loader>>

\* the resolution of an already resolved URL
ResolveAgain ==
    /\ Len(pdf_url) = 1
    /\ pdf_url' = Append(pdf_url, ResolveUrl(pdf_url[1]))
    /\ UNCHANGED <<raw_url, driver, retry, loader>>

NextResolve == ResolveOnce \/ ResolveAgain

SpecResolve == InitResolve /\ [][NextResolve]_vars

Letters == {"h", "t", "p", "a"}

\* a scheme prefix: one or more letters followed by a colon
HasScheme(u) ==
    \E i \in 2..Len(u) : u[i] = ":" /\ \A j \in 1..(i - 1) : u[j] \in Letters

BeginsHttp(u) ==
    Len(u) >= 4 /\ u[1] = "h" /\ u[2] = "t" /\ u[3] = "t" /\ u[4] = "p"

Idempotent == Len(pdf_url) = 2 => pdf_url[2] = pdf_url[1]

\* C6 as stated: a raw URL that carries a scheme prefix is passed through
\* unchanged, every raw URL without a scheme prefix is rewritten to the
\* PDF host base followed by the raw URL, and resolving a resolved URL
\* yields the same URL.
C6_Original ==
    Len(pdf_url) >= 1 =>
        /\ HasScheme(raw_url) => pdf_url[1] = raw_url
        /\ ~HasScheme(raw_url) => pdf_url[1] = URL_PDF_BASE \o raw_url
        /\ Idempotent

\* C6 as amended: a raw URL that begins with the four characters "http" is
\* passed through unchanged, every other raw URL is rewritten to the PDF
\* host base followed by the raw URL, and resolving a resolved URL yields
\* the same URL.
C6_HttpPrefixDecides ==
    Len(pdf_url) >= 1 =>
        /\ BeginsHttp(raw_url) => pdf_url[1] = raw_url
        /\ ~BeginsHttp(raw_url) => pdf_url[1] = URL_PDF_BASE \o raw_url
        /\ Idempotent

C6_Witness ==
    /\ Len(pdf_url) = 2
    /\ raw_url = <<"h","t","t","p",":">>
    /\ pdf_url[1] = raw_url
    /\ pdf_url[2] = raw_url

----------------------------------------------------------------------------
(* load_codes_from_csv.  csv.DictReader maps the header's names to the     *)
(* cells of a row; a row shorter than the header gets None for the missing *)
(* cells, and a row without cells (a blank line) is not yielded at all.    *)

\* the recognized columns; "zqdm" stands for the Chinese header of the
\* second one (security code), which is not ASCII
CsvColumns == <<"code", "zqdm", "stock_code">>

\* DictReader's row.get(col)
RowGet(header, cells, col) ==
    LET at == {i \in 1..Len(header) : header[i] = col}
    IN  IF at = {} THEN NONE
        ELSE LET i == CHOOSE i \in at : \A j \in at : j <= i
             IN  IF i <= Len(cells) THEN Str(cells[i]) ELSE NONE

\* Python's truth value of a dictionary value
Truthy(v) == v.k = "str" /\ v.s # <<>>

\* a selection that trims each column before testing it
RowCodeTrimFirst(header, cells) ==
    LET t(col) == Strip(RowGet(header, cells, col).s)
    IN  IF t("code") # <<>> THEN t("code")
        ELSE IF t("zqdm") # <<>> THEN t("zqdm")
        ELSE t("stock_code")

\* (row.get("code") or row.get(<zqdm>) or row.get("stock_code") or "").strip()
RowCode(header, cells) ==
    LET a == RowGet(header, cells, "code")
        b == RowGet(header, cells, "zqdm")
        c == RowGet(header, cells, "stock_code")
    IN  Strip(IF Truthy(a) THEN a.s
              ELSE IF Truthy(b) THEN b.s
              ELSE IF Truthy(c) THEN c.s
              ELSE <<>>)

RECURSIVE LoadRows(_, _, _)
LoadRows(header, rows, acc) ==
    IF rows = <<>> THEN acc
    ELSE LET cells == Head(rows)
             code == RowCode(header, cells)
         IN  LoadRows(header, Tail(rows),
                      IF cells # <<>> /\ code # <<>> THEN Append(acc, code)
                      ELSE acc)

LoadCodesFromCsv(f) == LoadRows(f.header, f.rows, <<>>)

\* the headers: the recognized columns present, in file order
Headers ==
    {h \in SeqsOf({"code", "zqdm", "stock_code"}, 1, Len(CsvColumns)) :
        \A i, j \in 1..Len(h) :
            i < j => \E a, b \in 1..Len(CsvColumns) :
                        a < b /\ CsvColumns[a] = h[i] /\ CsvColumns[b] = h[j]}

Cells == {<<>>, <<" ">>, <<" ", "6">>, <<"7", " ">>}

\* f is a CSV file of the model: a header and up to MaxCsvRows rows, each
\* with at most as many cells as the header has columns
IsCsvFile(f) ==
    \E h \in Headers : \E n \in 0..MaxCsvRows :
        \E rs \in [1..n -> SeqsOf(Cells, 0, Len(h))] :
            f = [header |-> h, rows |-> rs]

InitLoader ==
    /\ DriverIdle /\ RetryIdle /\ ResolveIdle
    /\ IsCsvFile(csv)
    /\ loaded = NotLoaded

CallLoadCodesFromCsv ==
    /\ ~loaded.done
    /\ loaded' = [done |-> TRUE, codes |-> LoadCodesFromCsv(csv)]
    /\ UNCHANGED <<csv, driver, retry, resolve>>

NextLoader == CallLoadCodesFromCsv

SpecLoader == InitLoader /\ [][NextLoader]_vars

\* the first value, in column order, that is a non-empty string; the empty
\* string when no recognized column has one
FirstNonEmpty(header, cells) ==
    LET cols == {i \in 1..Len(CsvColumns) :
                    Truthy(RowGet(header, cells, CsvColumns[i]))}
    IN  IF cols = {} THEN <<>>
        ELSE RowGet(header, cells,
                    CsvColumns[CHOOSE i \in cols : \A j \in cols : i <= j]).s

\* the first value, in column order, that is not empty once trimmed; the
\* empty string when no recognized column has one
FirstNonBlank(header, cells) ==
    LET cols == {i \in 1..Len(CsvColumns) :
                    Strip(RowGet(header, cells, CsvColumns[i]).s) # <<>>}
    IN  IF cols = {} THEN <<>>
        ELSE RowGet(header, cells,
                    CsvColumns[CHOOSE i \in cols : \A j \in cols : i <= j]).s

\* the trimmed Pick of every row whose trimmed Pick is not empty, in row
\* order
CodesOfRows(Pick(_, _)) ==
    LET Keep(cells) == Strip(Pick(csv.header, cells)) # <<>>
        kept == SelectSeq(csv.rows, Keep)
    IN  [i \in 1..Len(kept) |-> Strip(Pick(csv.header, kept[i]))]

\* C9 as stated: the result holds, in row order and with duplicates kept,
\* the trimmed first non-empty value of each row among the columns code,
\* zqdm, stock_code; a row is skipped only when none of these columns
\* yields a value; every returned code is non-empty.  (A value counts as
\* yielded when it is not empty once trimmed: the reading under which the
\* returned codes can all be non-empty.)
C9_Original ==
    loaded.done =>
        /\ loaded.codes = CodesOfRows(FirstNonBlank)
        /\ \A i \in 1..Len(loaded.codes) : loaded.codes[i] # <<>>

\* C9 as amended: the value taken from a row is the first one that is a
\* non-empty string before trimming; the row is skipped when there is none
\* or when that value consists of whitespace only (the later columns are
\* then not consulted).
C9_FirstNonEmptyThenTrim ==
    loaded.done =>
        /\ loaded.codes = CodesOfRows(FirstNonEmpty)
        /\ \A i \in 1..Len(loaded.codes) : loaded.codes[i] # <<>>

C9_Witness ==
    /\ loaded.done
    /\ csv.header = <<"code", "zqdm">>
    /\ csv.rows = << << <<>>, <<"7", " ">> >>, << <<" ">>, <<" ", "6">> >> >>
    /\ loaded.codes = << <<"7">> >>

----------------------------------------------------------------------------
(* The record normalizer and deduplicator of main().                        *)

\* item.get(key, "").strip() of sse_links_downloader.py: a missing key
\* gives "", a None value stays None and .strip() raises AttributeError
FieldTextFixed(v) ==
    IF v.k = "none" THEN [ok |-> FALSE, s |-> <<>>]
    ELSE [ok |-> TRUE, s |-> Strip(v.s)]

\* (item.get(key) or "").strip() of sse_links_mainboard_downloader.py
FieldTextMainboard(v) == [ok |-> TRUE, s |-> Strip(v.s)]

FieldText(var, v) ==
    IF var = "fixed" THEN FieldTextFixed(v) ELSE FieldTextMainboard(v)

\* a membership test that never finds the URL
IsDuplicateNever(u, seen) == FALSE

\* if pdf_url in seen_urls
IsDuplicate(u, seen) == u \in seen

\* an accumulator that puts the newest row first
AppendRowInFront(rows, row) == <<row>> \o rows

\* summary_rows.append({...})
AppendRow(rows, row) == Append(rows, row)

\* one pass of the body of `for item in reports`
NormalizeItem(var, code, item, rows, seen) ==
    LET title == FieldText(var, item.TITLE)
        date == FieldText(var, item.SSEDATE)
        rel == FieldText(var, item.URL)
    IN  IF ~title.ok \/ ~date.ok \/ ~rel.ok
        THEN [status |-> "raise", rows |-> rows, seen |-> seen]
        ELSE IF rel.s = <<>>
        THEN [status |-> "skip", rows |-> rows, seen |-> seen]
        ELSE LET u == ResolveUrl(rel.s)
             IN  IF IsDuplicate(u, seen)
                 THEN [status |-> "dup", rows |-> rows, seen |-> seen]
                 ELSE [status |-> "emit",
                       rows |-> AppendRow(rows,
                                    [code |-> code, title |-> title.s,
                                     date |-> date.s, url |-> u]),
                       seen |-> seen \cup {u}]

----------------------------------------------------------------------------
(* fetch_reports_for_year.  A response body is JSON with a result list,    *)
(* JSON without a result key, or not JSON at all (resp.json() raises).     *)

Raised == [raised |-> TRUE, results |-> <<>>]

FetchReportsForYear(outs) ==
    LET r == RequestWithRetry(MAX_RETRIES, outs)
    IN  IF r.kind # "return" THEN Raised
        ELSE IF r.val.kind = "notjson" THEN Raised
        ELSE IF r.val.kind = "json"
        THEN [raised |-> FALSE, results |-> r.val.result]
        ELSE [raised |-> FALSE, results |-> <<>>]

\* the endpoint fails nfail times and then answers with body
AttemptsOf(nfail, body) ==
    [i \in 1..MAX_RETRIES |->
        IF i <= nfail THEN [ok |-> FALSE, v |-> [kind |-> "error", result |-> <<>>]]
        ELSE [ok |-> TRUE, v |-> body]]

UrlA == <<"/", "a">>

\* the records the endpoint may return
ItemPool ==
    { [TITLE |-> Str(<<" ", "T">>), SSEDATE |-> Str(<<"D">>), URL |-> Str(UrlA)],
      [TITLE |-> ABSENT, SSEDATE |-> ABSENT,
       URL |-> Str(URL_PDF_BASE \o UrlA \o <<" ">>)],
      [TITLE |-> Str(<<"T">>), SSEDATE |-> ABSENT, URL |-> Str(<<"/", "b">>)],
      [TITLE |-> Str(<<"T">>), SSEDATE |-> Str(<<"D">>), URL |-> Str(<<" ">>)],
      [TITLE |-> Str(<<"T">>), SSEDATE |-> Str(<<"D">>), URL |-> ABSENT],
      [TITLE |-> NONE, SSEDATE |-> Str(<<"D">>), URL |-> NONE] }

JsonBody(l) == [kind |-> "json", result |-> l]

OtherBodies == {[kind |-> "json_noresult", result |-> <<>>],
                [kind |-> "notjson", result |-> <<>>]}

----------------------------------------------------------------------------
(* main().                                                                  *)

Init ==
    /\ RetryIdle /\ ResolveIdle /\ LoaderIdle
    /\ \/ variant = "fixed" /\ codes = CODES
       \/ /\ variant = "mainboard"
          /\ \E h \in Headers : \E n \in 0..MaxCsvRows :
                \E rs \in [1..n -> SeqsOf(Cells, 0, Len(h))] :
                    codes = LoadCodesFromCsv([header |-> h, rows |-> rs])
    /\ year = START_YEAR
    /\ ci = 0
    /\ reports = <<>>
    /\ summary_rows = <<>>
    /\ seen_urls = {}
    /\ files = [y \in Years |-> NoFile]
    /\ pc = "year"
    /\ hist = <<>>
    /\ attempted = <<>>
    /\ accumulated = [y \in Years |-> FALSE]
    /\ nwrites = [y \in Years |-> 0]
    /\ nrecs = 0

\* a dedup set carried over from the previous year
FreshSeenKept == seen_urls

\* seen_urls = set()
FreshSeen == {}

\* summary_rows = []
FreshRows == <<>>

\* the top of the body of `for year in range(START_YEAR, END_YEAR + 1)`
YearStart ==
    /\ pc = "year"
    /\ summary_rows' = FreshRows
    /\ seen_urls' = FreshSeen
    /\ hist' = <<>>
    /\ reports' = <<>>
    /\ ci' = IF codes = <<>> THEN 0 ELSE 1
    /\ pc' = IF codes = <<>> THEN "flush" ELSE "fetch"
    /\ UNCHANGED <<variant, codes, year, files, attempted, accumulated, nwrites,
                   nrecs, retry, resolve, loader>>

\* the code loop moves to its next code, or ends
NextCode ==
    /\ ci' = IF ci < Len(codes) THEN ci + 1 ELSE ci
    /\ pc' = IF ci < Len(codes) THEN "fetch" ELSE "flush"

\* reports = fetch_reports_for_year(session, code, year), and its except
Fetch(nfail, body) ==
    /\ pc = "fetch"
    /\ attempted' = Append(attempted, <<year, ci>>)
    /\ LET r == FetchReportsForYear(AttemptsOf(nfail, body))
       IN  IF r.raised
           THEN /\ NextCode
                /\ UNCHANGED <<reports, hist, nrecs>>
           ELSE /\ reports' = r.results
                /\ nrecs' = nrecs + Len(r.results)
                /\ hist' = hist \o [i \in 1..Len(r.results) |->
                                       [code |-> codes[ci], item |-> r.results[i]]]
                /\ IF r.results = <<>> THEN NextCode
                   ELSE pc' = "items" /\ ci' = ci
    /\ UNCHANGED <<variant, codes, year, summary_rows, seen_urls, files,
                   accumulated, nwrites, retry, resolve, loader>>

\* the body of `for item in reports`, for the next record
ProcessItem ==
    /\ pc = "items"
    /\ LET n == NormalizeItem(variant, codes[ci], Head(reports),
                              summary_rows, seen_urls)
       IN  IF n.status = "raise"
           THEN /\ pc' = "crashed"
                /\ UNCHANGED <<ci, reports, summary_rows, seen_urls, accumulated>>
           ELSE /\ summary_rows' = n.rows
                /\ seen_urls' = n.seen
                /\ accumulated' = IF n.status = "emit"
                                  THEN [accumulated EXCEPT ![year] = TRUE]
                                  ELSE accumulated
                /\ reports' = Tail(reports)
                /\ IF Tail(reports) = <<>> THEN NextCode
                   ELSE pc' = "items" /\ ci' = ci
    /\ UNCHANGED <<variant, codes, year, files, hist, attempted, nwrites,
                   nrecs, retry, resolve, loader>>

\* if summary_rows
MustWrite(rows) == rows # <<>>

\* the end of the year's pass: the CSV is written, or the warning printed
WriteYear ==
    /\ pc = "flush"
    /\ IF MustWrite(summary_rows)
       THEN /\ files' = [files EXCEPT
                            ![year] = [written |-> TRUE, rows |-> summary_rows]]
            /\ nwrites' = [nwrites EXCEPT ![year] = @ + 1]
       ELSE UNCHANGED <<files, nwrites>>
    /\ year' = IF year < END_YEAR THEN year + 1 ELSE year
    /\ pc' = IF year < END_YEAR THEN "year" ELSE "done"
    /\ UNCHANGED <<variant, codes, ci, reports, summary_rows, seen_urls, hist,
                   attempted, accumulated, nrecs, retry, resolve, loader>>

Next ==
    \/ YearStart
    \/ \E nfail \in 0..MAX_RETRIES, n \in 0..(MaxRecs - nrecs) :
          \E l \in [1..n -> ItemPool] : Fetch(nfail, JsonBody(l))
    \/ \E nfail \in 0..MAX_RETRIES, body \in OtherBodies : Fetch(nfail, body)
    \/ ProcessItem
    \/ WriteYear

Spec == Init /\ [][Next]_vars

----------------------------------------------------------------------------
(* What a year's rows must be, stated on the records fetched for the year.  *)

\* the trimmed text of a field, a missing or None value being empty
TextOf(v) == IF v.k = "str" THEN Strip(v.s) ELSE <<>>

BlankUrl(item) == TextOf(item.URL) = <<>>

Resolved(item) == ResolveUrl(TextOf(item.URL))

RowOf(e) ==
    [code |-> e.code, title |-> TextOf(e.item.TITLE),
     date |-> TextOf(e.item.SSEDATE), url |-> Resolved(e.item)]

\* the positions of h that hold the first occurrence of a resolved URL
FirstPositions(h) ==
    {i \in 1..Len(h) :
        /\ ~BlankUrl(h[i].item)
        /\ \A j \in 1..(i - 1) :
              BlankUrl(h[j].item) \/ Resolved(h[j].item) # Resolved(h[i].item)}

FirstOccurrences(h) ==
    LET K == FirstPositions(h)
        nth(k) == CHOOSE i \in K : Cardinality({j \in K : j <= i}) = k
    IN  [k \in 1..Cardinality(K) |-> RowOf(h[nth(k)])]

\* the records of this year that the item loop has gone through
Processed == SubSeq(hist, 1, Len(hist) - Len(reports))

\* hist still holds the records of year y, whose pass has ended
JustEnded(y) ==
    \/ pc = "year" /\ y = year - 1
    \/ pc = "done" /\ y = END_YEAR

InPass == pc \in {"fetch", "items", "flush", "crashed"}

UrlsOf(rows) == {rows[i].url : i \in 1..Len(rows)}

DistinctUrls(rows) ==
    \A i, j \in 1..Len(rows) : i # j => rows[i].url # rows[j].url

\* C1: no two rows of a year's output file have the same url; at every
\* point of a year's pass the urls of the accumulated rows are pairwise
\* distinct and are exactly the members of the dedup set, whatever codes
\* the rows came from.
C1_NoDuplicateUrl ==
    /\ DistinctUrls(summary_rows)
    /\ UrlsOf(summary_rows) = seen_urls
    /\ \A y \in Years : DistinctUrls(files[y].rows)

\* a duplicate coming from another code has been dropped, next to a row
\* with another url
C1_Witness ==
    /\ pc = "flush"
    /\ Len(summary_rows) = 2
    /\ \E i, j \in 1..Len(hist) :
          /\ i < j
          /\ hist[i].code # hist[j].code
          /\ ~BlankUrl(hist[i].item) /\ ~BlankUrl(hist[j].item)
          /\ Resolved(hist[i].item) = Resolved(hist[j].item)

\* C10: the rows of a year are, in order, the first occurrences of each
\* distinct non-empty resolved URL among the records fetched for the year,
\* each with the code, title and date of that first occurrence; this holds
\* of the accumulator after every record and of the file once written.
C10_FirstOccurrenceWins ==
    /\ InPass => summary_rows = FirstOccurrences(Processed)
    /\ \A y \in Years :
          (JustEnded(y) /\ files[y].written) =>
              files[y].rows = FirstOccurrences(hist)

\* the end-to-end scenario: the first code returns a relative URL and a
\* blank URL, the second code a record resolving to the same URL; the file
\* of 2022 holds one row, of the first code
C10_Witness ==
    /\ pc = "year" /\ year = START_YEAR + 1
    /\ Len(hist) = 3 /\ Len(codes) >= 2
    /\ hist[1].code = codes[1] /\ hist[1].item.URL = Str(UrlA)
    /\ hist[2].code = codes[1] /\ BlankUrl(hist[2].item)
    /\ hist[3].code = codes[2] /\ codes[2] # codes[1]
    /\ hist[3].item.URL = Str(URL_PDF_BASE \o UrlA \o <<" ">>)
    /\ files[START_YEAR].written
    /\ Len(files[START_YEAR].rows) = 1
    /\ files[START_YEAR].rows[1] =
          [code |-> codes[1], title |-> <<"T">>, date |-> <<"D">>,
           url |-> URL_PDF_BASE \o UrlA]

\* C8: the dedup set and the accumulator hold nothing but what the records
\* fetched for the current year put there: both are empty until the year
\* returns a record, every member comes from a record of this year, and
\* every URL a processed record of this year resolves to has its row,
\* whatever the earlier years emitted.
C8_YearScoped ==
    InPass =>
        /\ \A u \in seen_urls :
              \E i \in 1..Len(hist) :
                  ~BlankUrl(hist[i].item) /\ Resolved(hist[i].item) = u
        /\ \A k \in 1..Len(summary_rows) :
              \E i \in 1..Len(hist) : RowOf(hist[i]) = summary_rows[k]
        /\ hist = <<>> => (seen_urls = {} /\ summary_rows = <<>>)
        /\ \A i \in 1..Len(Processed) :
              ~BlankUrl(hist[i].item) =>
                  Resolved(hist[i].item) \in UrlsOf(summary_rows)

\* the same resolved URL is in the files of both years
C8_Witness ==
    /\ pc = "done"
    /\ files[START_YEAR].written /\ files[END_YEAR].written
    /\ UrlsOf(files[START_YEAR].rows) \cap UrlsOf(files[END_YEAR].rows) # {}

----------------------------------------------------------------------------
(* Claims that the code of sse_links_downloader.py does not meet.           *)

\* C5: a record whose URL field is absent, None, empty or whitespace-only
\* is skipped, whatever its title and date are: it raises no error, adds no
\* row and no member of the dedup set, and the loop goes on with the next
\* record of the same fetch.
C5_Claim ==
    [][(pc = "items" /\ BlankUrl(Head(reports))) =>
          /\ pc' # "crashed"
          /\ summary_rows' = summary_rows
          /\ seen_urls' = seen_urls
          /\ reports' = Tail(reports)
          /\ files' = files]_vars

\* the same, for the entry point that reads its codes from the CSV
C5_InMainboard ==
    [][(variant = "mainboard" /\ pc = "items" /\ BlankUrl(Head(reports))) =>
          /\ pc' # "crashed"
          /\ summary_rows' = summary_rows
          /\ seen_urls' = seen_urls
          /\ reports' = Tail(reports)
          /\ files' = files]_vars

\* the (year, position) pairs of the configured range, in order
AllPairs ==
    [k \in 1..(Len(codes) * (END_YEAR - START_YEAR + 1)) |->
        <<START_YEAR + ((k - 1) \div Len(codes)), ((k - 1) % Len(codes)) + 1>>]

IsPrefix(a, b) == Len(a) <= Len(b) /\ SubSeq(b, 1, Len(a)) = a

\* C2: whatever fetches fail, every (year, code) pair is attempted exactly
\* once and in order, the run does not stop before its end, and the rows of
\* a year are what they would be had each failed fetch returned no record.
C2_Claim ==
    /\ IsPrefix(attempted, AllPairs)
    /\ pc = "done" => attempted = AllPairs
    /\ pc = "done" \/ ENABLED Next
    /\ InPass => summary_rows = FirstOccurrences(Processed)

C2_InMainboard == variant = "mainboard" => C2_Claim

\* the pass of year y has ended
PassEnded(y) == y < year \/ pc \in {"done", "crashed"}

\* C7: the file of a year is written if and only if a record was
\* accumulated for the year, exactly once, after all its codes have been
\* processed; a year that accumulated nothing gets no file and the run goes
\* on to the next year.
C7_Claim ==
    \A y \in Years :
        /\ nwrites[y] <= 1
        /\ files[y].written <=> nwrites[y] = 1
        /\ files[y].written => (y < year \/ pc = "done")
        /\ PassEnded(y) =>
              /\ files[y].written <=> accumulated[y]
              /\ y < year \/ pc = "done"

C7_InMainboard == variant = "mainboard" => C7_Claim

====
